---- MODULE Spec2Model ----
(***************************************************************************)
(* Plan enforcement and billing sync of the blog backend (Express server   *)
(* in front of a Supabase store and Stripe).  Each HTTP handler is one     *)
(* action: a handler runs from its first line to its response with no      *)
(* other handler in between.  The store and the billing provider answer    *)
(* every call (no transport failure is modelled); the errors that remain   *)
(* are the ones the code's own queries produce.                            *)
(*                                                                         *)
(* The blog handlers only read the profiles table and the billing handlers *)
(* never touch the blogs table, so the two halves are explored by two      *)
(* specifications over the same variables: SpecBlogs (the CRUD handlers,   *)
(* from stores seeded with either plan) and SpecBilling (webhook, checkout *)
(* and profile provisioning, under every Stripe configuration).            *)
(* SpecPolicy applies the plan policy to profile rows whose plan column    *)
(* holds arbitrary tier strings.                                           *)
(*                                                                         *)
(* SpecBlogsRace and SpecBillingRace run POST /blogs and POST              *)
(* /billing/checkout one await at a time, so that several handlers (and    *)
(* webhook deliveries) interleave between a handler's reads and writes.    *)
(***************************************************************************)
EXTENDS Integers, Sequences, FiniteSets, TLC

\* ---------------------------------------------------------------- bounds
MaxNewPosts == 2        \* posts inserted during a run
MaxCustomers == 1       \* customers created at the billing provider
MaxSessions == 2        \* checkout sessions created at the billing provider
MaxInflight == 2        \* handlers suspended at an await at the same time
MaxRaceCustomers == 2   \* customers created while handlers interleave

\* ------------------------------------------------------- program constants
FreeLimit == 4
PremiumLimit == 20
DEFAULT_PLAN == "free"

\* --------------------------------------------------------------- domains
Users == {"u1", "u2"}
NULL == 0               \* null of a customer / subscription reference
NOBODY == ""            \* absent identity (no token, no metadata tag)
NOSECRET == ""          \* STRIPE_WEBHOOK_SECRET unset

\* bearer tokens: an identity's token is its id; "" is a missing header,
\* "stale" a token the auth provider does not accept
Tokens == Users \cup {"", "stale"}
Titles == {"", "t1"}
Contents == {"", "c1"}
Secrets == {"whsec_live", "whsec_other"}
SubIds == {1, 2}
\* customer references: the k-th customer created by this server is k; the
\* provider also knows a customer that was not created here
ExternalCustomers == {101}
CreatedId(k) == k

\* ids of the blogs table: the id sequence stands at SeedTop when the run starts
SeedTop == PremiumLimit - 1
SeedCounts == {0, FreeLimit - 1, PremiumLimit - 1}
NeverId == SeedTop + MaxNewPosts + 1
ReqIds == {1, SeedTop + 1, NeverId}

\* tier strings handed to the plan policy
Tiers == {"free", "premium", "gold", "", "Premium", "constructor", "toString",
          "__proto__"}

VARIABLES
    stripe,               \* TRUE iff STRIPE_SECRET_KEY was set (client constructed)
    stripePriceId,        \* TRUE iff STRIPE_PRICE_ID is set
    stripeWebhookSecret,  \* the signing secret, NOSECRET if unset
    profiles,             \* table profiles: sequence of rows
    blogs,                \* table blogs: set of rows
    nextBlogId,           \* id sequence of table blogs
    customers,            \* provider: customers created here, by metadata user
    sessions,             \* provider: number of checkout sessions created here
    req,                  \* the request handled last
    res,                  \* the response sent last
    repeat,               \* TRUE iff the last request equals the one before it
    inflight,             \* the handlers suspended at an await, with their locals
    premiumBy             \* per identity: customer of the completed event that last
                          \* made its profile premium, NULL once a deleted event
                          \* returned it to free

vars == <<stripe, stripePriceId, stripeWebhookSecret, profiles, blogs, nextBlogId,
          customers, sessions, req, res, repeat, inflight, premiumBy>>
config == <<stripe, stripePriceId, stripeWebhookSecret>>
provider == <<customers, sessions>>
blogTable == <<blogs, nextBlogId>>

\* ------------------------------------------------------ requests, responses
NoEvent == [type |-> "", user |-> NOBODY, customer |-> NULL, subscription |-> NULL]
NoLimit == [kind |-> "none", n |-> 0]

Request(op, token, id, title, content, sig, event) ==
    [op |-> op, token |-> token, id |-> id, title |-> title, content |-> content,
     sig |-> sig, event |-> event]

\* status: HTTP status; customer: customer of the checkout session created;
\* created: a billing customer was created; plan / blogCount / maxBlogs: body of
\* GET /profile; blog: id of the row returned
Response(status) ==
    [status |-> status, customer |-> NULL, created |-> FALSE, plan |-> "",
     blogCount |-> 0, maxBlogs |-> NoLimit, blog |-> 0]

\* events the provider can deliver about the customers in C: a completed session
\* carries metadata user, customer and subscription; a deleted subscription
\* carries its customer
Events(C) ==
    {[type |-> "checkout.session.completed", user |-> u, customer |-> c,
      subscription |-> s] : u \in Users \cup {NOBODY}, c \in C, s \in SubIds}
    \cup {[type |-> "customer.subscription.deleted", user |-> NOBODY, customer |-> c,
           subscription |-> NULL] : c \in C}
    \cup {[type |-> "invoice.paid", user |-> NOBODY, customer |-> NULL,
           subscription |-> NULL]}

\* the customers the provider knows
KnownCustomers == ExternalCustomers \cup {CreatedId(k) : k \in 1..Len(customers)}

\* ------------------------------------------------------------- the store
ProfileRow(id, plan, cus, sub) ==
    [id |-> id, plan |-> plan, stripe_customer_id |-> cus,
     stripe_subscription_id |-> sub]

BlogRow(id, user, title, content) ==
    [id |-> id, user_id |-> user, title |-> title, content |-> content]

\* .single(): exactly one row or error PGRST116
single(rows) ==
    IF Len(rows) = 1
    THEN [data |-> rows, error |-> ""]
    ELSE [data |-> <<>>, error |-> "PGRST116"]

RowsOf(P, u) == SelectSeq(P, LAMBDA r : r.id = u)

\* requireAuth: the identity of a bearer token, NOBODY if the request is refused
requireAuth(token) == IF token \in Users THEN token ELSE NOBODY

ensureProfileAlwaysInsert(P, u) ==
    LET new == ProfileRow(u, DEFAULT_PLAN, NULL, NULL)
    IN  [profiles |-> Append(P, new), profile |-> new, threw |-> FALSE]

ensureProfile(P, u) ==
    LET q == single(RowsOf(P, u))
        new == ProfileRow(u, DEFAULT_PLAN, NULL, NULL)
    IN  IF q.data # <<>>
        THEN [profiles |-> P, profile |-> q.data[1], threw |-> FALSE]
        ELSE IF q.error # "" /\ q.error # "PGRST116"
        THEN [profiles |-> P, profile |-> new, threw |-> TRUE]
        ELSE [profiles |-> Append(P, new), profile |-> new, threw |-> FALSE]

\* PLAN_LIMITS[plan]: own properties of the object literal, then the properties
\* every object literal inherits from Object.prototype
ObjectPrototypeKeys ==
    {"constructor", "toString", "toLocaleString", "valueOf", "hasOwnProperty",
     "isPrototypeOf", "propertyIsEnumerable", "__proto__", "__defineGetter__",
     "__defineSetter__", "__lookupGetter__", "__lookupSetter__"}

Number(n) == [kind |-> "number", n |-> n]
Undefined == [kind |-> "undefined", n |-> 0]
Inherited == [kind |-> "object", n |-> 0]

PLAN_LIMITS(plan) ==
    IF plan = "free" THEN Number(FreeLimit)
    ELSE IF plan = "premium" THEN Number(PremiumLimit)
    ELSE IF plan \in ObjectPrototypeKeys THEN Inherited
    ELSE Undefined

Truthy(v) == v.kind = "object" \/ (v.kind = "number" /\ v.n # 0)

getPlanLimit(plan) ==
    IF Truthy(PLAN_LIMITS(plan)) THEN PLAN_LIMITS(plan) ELSE PLAN_LIMITS(DEFAULT_PLAN)

AtLimitStrict(count, limit) == limit.kind = "number" /\ count > limit.n

\* userBlogCount >= planLimit: a limit that is no number converts to NaN
AtLimit(count, limit) == limit.kind = "number" /\ count >= limit.n

getBlogCount(B, u) == Cardinality({b \in B : b.user_id = u})

\* ------------------------------------------------ POST /stripe/webhook
\* stripe.webhooks.constructEvent: the event if the signature was made with the
\* endpoint's secret, an exception otherwise
constructEventNoCheck(sig, secret) == TRUE

constructEvent(sig, secret) == sig = secret

completedUpdateNoSubscription(P, ev) ==
    [i \in DOMAIN P |->
        IF P[i].id = ev.user
        THEN [P[i] EXCEPT !.plan = "premium", !.stripe_customer_id = ev.customer]
        ELSE P[i]]

completedInsert(P, ev) ==
    Append(P, [id |-> ev.user, plan |-> "premium",
               stripe_customer_id |-> ev.customer,
               stripe_subscription_id |-> ev.subscription])

\* .update(patch).eq("id", user)
completedUpdate(P, ev) ==
    [i \in DOMAIN P |->
        IF P[i].id = ev.user
        THEN [P[i] EXCEPT !.plan = "premium",
                          !.stripe_customer_id = ev.customer,
                          !.stripe_subscription_id = ev.subscription]
        ELSE P[i]]

deletedUpdateClearsCustomer(P, ev) ==
    [i \in DOMAIN P |->
        IF P[i].stripe_customer_id = ev.customer
        THEN [P[i] EXCEPT !.plan = DEFAULT_PLAN, !.stripe_subscription_id = NULL,
                          !.stripe_customer_id = NULL]
        ELSE P[i]]

\* .update(patch).eq("stripe_customer_id", customer)
deletedUpdate(P, ev) ==
    [i \in DOMAIN P |->
        IF P[i].stripe_customer_id = ev.customer
        THEN [P[i] EXCEPT !.plan = DEFAULT_PLAN, !.stripe_subscription_id = NULL]
        ELSE P[i]]

eventSwitch(P, ev) ==
    IF ev.type = "checkout.session.completed"
    THEN IF ev.user # NOBODY THEN completedUpdate(P, ev) ELSE P
    ELSE IF ev.type = "customer.subscription.deleted"
    THEN deletedUpdate(P, ev)
    ELSE P

webhook(P, sig, ev) ==
    IF ~stripe \/ stripeWebhookSecret = NOSECRET
    THEN [profiles |-> P, status |-> 400]
    ELSE IF ~constructEvent(sig, stripeWebhookSecret)
    THEN [profiles |-> P, status |-> 400]
    ELSE [profiles |-> eventSwitch(P, ev), status |-> 200]

Respond(r, s) ==
    /\ req' = r
    /\ res' = s
    /\ repeat' = (r = req)

\* the completed event that last made each identity's profile premium
madePremiumBy(G, P, sig, ev) ==
    IF webhook(P, sig, ev).status # 200 THEN G
    ELSE IF ev.type = "checkout.session.completed"
    THEN [u \in Users |-> IF u = ev.user /\ RowsOf(P, u) # <<>> THEN ev.customer
                          ELSE G[u]]
    ELSE IF ev.type = "customer.subscription.deleted"
    THEN [u \in Users |->
            IF \E i \in DOMAIN P :
                  P[i].id = u /\ P[i].stripe_customer_id = ev.customer
            THEN NULL ELSE G[u]]
    ELSE G

Webhook(sig, ev) ==
    LET out == webhook(profiles, sig, ev)
    IN  /\ profiles' = out.profiles
        /\ premiumBy' = madePremiumBy(premiumBy, profiles, sig, ev)
        /\ Respond(Request("POST /stripe/webhook", "", 0, "", "", sig, ev),
                   Response(out.status))
        /\ UNCHANGED <<inflight, config, blogTable, provider>>

\* ------------------------------------------------------ GET /profile
GetProfile(token) ==
    LET user == requireAuth(token)
        rq == Request("GET /profile", token, 0, "", "", "", NoEvent)
        ep == ensureProfile(profiles, user)
    IN  /\ IF user = NOBODY
           THEN /\ Respond(rq, Response(401))
                /\ UNCHANGED profiles
           ELSE IF ep.threw
           THEN /\ Respond(rq, Response(500))
                /\ UNCHANGED profiles
           ELSE /\ profiles' = ep.profiles
                /\ Respond(rq, [Response(200) EXCEPT
                                  !.plan = ep.profile.plan,
                                  !.blogCount = getBlogCount(blogs, user),
                                  !.maxBlogs = getPlanLimit(ep.profile.plan)])
        /\ UNCHANGED <<inflight, premiumBy, config, blogTable, provider>>

\* ------------------------------------------------------ GET /blogs
GetBlogs(token) ==
    LET user == requireAuth(token)
        rq == Request("GET /blogs", token, 0, "", "", "", NoEvent)
        ep == ensureProfile(profiles, user)
    IN  /\ IF user = NOBODY
           THEN /\ Respond(rq, Response(401))
                /\ UNCHANGED profiles
           ELSE IF ep.threw
           THEN /\ Respond(rq, Response(500))
                /\ UNCHANGED profiles
           ELSE /\ profiles' = ep.profiles
                /\ Respond(rq, [Response(200) EXCEPT
                                  !.blogCount = getBlogCount(blogs, user)])
        /\ UNCHANGED <<inflight, premiumBy, config, blogTable, provider>>

\* ------------------------------------------------------ POST /blogs
PostBlog(token, title, content) ==
    LET user == requireAuth(token)
        rq == Request("POST /blogs", token, 0, title, content, "", NoEvent)
        ep == ensureProfile(profiles, user)
        userBlogCount == getBlogCount(blogs, user)
        planLimit == getPlanLimit(ep.profile.plan)
    IN  /\ nextBlogId < SeedTop + MaxNewPosts
        /\ IF user = NOBODY
           THEN /\ Respond(rq, Response(401))
                /\ UNCHANGED <<profiles, blogTable>>
           ELSE IF title = "" \/ content = ""
           THEN /\ Respond(rq, Response(400))
                /\ UNCHANGED <<profiles, blogTable>>
           ELSE IF ep.threw
           THEN /\ Respond(rq, Response(500))
                /\ UNCHANGED <<profiles, blogTable>>
           ELSE IF AtLimit(userBlogCount, planLimit)
           THEN /\ profiles' = ep.profiles
                /\ Respond(rq, Response(403))
                /\ UNCHANGED blogTable
           ELSE /\ profiles' = ep.profiles
                /\ nextBlogId' = nextBlogId + 1
                /\ blogs' = blogs \cup {BlogRow(nextBlogId + 1, user, title, content)}
                /\ Respond(rq, [Response(200) EXCEPT !.blog = nextBlogId + 1])
        /\ UNCHANGED <<inflight, premiumBy, config, provider>>

\* ------------------------------------------------------ PUT /blogs/:id
Matching(B, id, user) == {b \in B : b.id = id /\ b.user_id = user}

\* the rows a .select() after a mutation returns, as a sequence for .single()
Returned(rows) == IF rows = {} THEN <<>> ELSE <<CHOOSE b \in rows : TRUE>>

PutBlog(token, id, title, content) ==
    LET user == requireAuth(token)
        rq == Request("PUT /blogs/:id", token, id, title, content, "", NoEvent)
        hit == Matching(blogs, id, user)
        updated == {[b EXCEPT !.title = title, !.content = content] : b \in hit}
        q == single(Returned(updated))
    IN  /\ IF user = NOBODY
           THEN /\ Respond(rq, Response(401))
                /\ UNCHANGED blogs
           ELSE IF title = "" \/ content = ""
           THEN /\ Respond(rq, Response(400))
                /\ UNCHANGED blogs
           ELSE /\ blogs' = (blogs \ hit) \cup updated
                /\ IF q.error # ""
                   THEN Respond(rq, Response(500))
                   ELSE IF q.data = <<>>
                   THEN Respond(rq, Response(404))
                   ELSE Respond(rq, [Response(200) EXCEPT !.blog = id])
        /\ UNCHANGED <<inflight, premiumBy, config, profiles, nextBlogId, provider>>

\* ------------------------------------------------------ DELETE /blogs/:id
DeleteBlog(token, id) ==
    LET user == requireAuth(token)
        rq == Request("DELETE /blogs/:id", token, id, "", "", "", NoEvent)
        hit == Matching(blogs, id, user)
        q == single(Returned(hit))
    IN  /\ IF user = NOBODY
           THEN /\ Respond(rq, Response(401))
                /\ UNCHANGED blogs
           ELSE /\ blogs' = blogs \ hit
                /\ IF q.error # ""
                   THEN Respond(rq, Response(500))
                   ELSE IF q.data = <<>>
                   THEN Respond(rq, Response(404))
                   ELSE Respond(rq, Response(200))
        /\ UNCHANGED <<inflight, premiumBy, config, profiles, nextBlogId, provider>>

\* ------------------------------------------------------ POST /billing/checkout
alreadyPremiumIgnored(profile) == FALSE

\* profile.plan === "premium"
alreadyPremium(profile) == profile.plan = "premium"

customerUpdateSkipped(P, user, customerId) == P

\* .update({ stripe_customer_id }).eq("id", user)
customerUpdate(P, user, customerId) ==
    [i \in DOMAIN P |->
        IF P[i].id = user THEN [P[i] EXCEPT !.stripe_customer_id = customerId]
        ELSE P[i]]

Checkout(token) ==
    LET user == requireAuth(token)
        rq == Request("POST /billing/checkout", token, 0, "", "", "", NoEvent)
        ep == ensureProfile(profiles, user)
        needsCustomer == ep.profile.stripe_customer_id = NULL
        customerId == IF needsCustomer THEN CreatedId(Len(customers) + 1)
                      ELSE ep.profile.stripe_customer_id
    IN  /\ IF user = NOBODY
           THEN /\ Respond(rq, Response(401))
                /\ UNCHANGED <<profiles, provider>>
           ELSE IF ~stripe \/ ~stripePriceId
           THEN /\ Respond(rq, Response(500))
                /\ UNCHANGED <<profiles, provider>>
           ELSE IF ep.threw
           THEN /\ Respond(rq, Response(500))
                /\ UNCHANGED <<profiles, provider>>
           ELSE IF alreadyPremium(ep.profile)
           THEN /\ profiles' = ep.profiles
                /\ Respond(rq, Response(400))
                /\ UNCHANGED provider
           ELSE /\ sessions < MaxSessions
                /\ needsCustomer => Len(customers) < MaxCustomers
                /\ customers' = IF needsCustomer THEN Append(customers, user)
                                ELSE customers
                /\ profiles' = IF needsCustomer
                               THEN customerUpdate(ep.profiles, user, customerId)
                               ELSE ep.profiles
                /\ sessions' = sessions + 1
                /\ Respond(rq, [Response(200) EXCEPT !.customer = customerId,
                                                    !.created = needsCustomer])
        /\ UNCHANGED <<inflight, premiumBy, config, blogTable>>

\* ------------------------------------------------ handlers, await by await
Slots == 1..MaxInflight

NoProfile == ProfileRow(NOBODY, "", NULL, NULL)

\* locals of a suspended handler: pc names the await it is suspended at
\* ("open": the handler has answered and its checkout session is open)
Locals(kind, pc, user, title, content, profile, count, customerId) ==
    [kind |-> kind, pc |-> pc, user |-> user, title |-> title, content |-> content,
     profile |-> profile, count |-> count, customerId |-> customerId]

Idle == Locals("idle", "", NOBODY, "", "", NoProfile, 0, NULL)

Suspend(s, l) == inflight' = [inflight EXCEPT ![s] = l]
Finish(s) == inflight' = [inflight EXCEPT ![s] = Idle]
Silent == UNCHANGED <<req, res, repeat>>

RequestOf(l) ==
    IF l.kind = "post"
    THEN Request("POST /blogs", l.user, 0, l.title, l.content, "", NoEvent)
    ELSE Request("POST /billing/checkout", l.user, 0, "", "", "", NoEvent)

\* POST /blogs up to its first store call
BeginPost(s, token, title, content) ==
    LET user == requireAuth(token)
        rq == Request("POST /blogs", token, 0, title, content, "", NoEvent)
    IN  /\ inflight[s].kind = "idle"
        /\ IF user = NOBODY
           THEN Respond(rq, Response(401)) /\ UNCHANGED inflight
           ELSE IF title = "" \/ content = ""
           THEN Respond(rq, Response(400)) /\ UNCHANGED inflight
           ELSE /\ Suspend(s, Locals("post", "select", user, title, content,
                                     NoProfile, 0, NULL))
                /\ Silent
        /\ UNCHANGED <<premiumBy, config, profiles, blogTable, provider>>

\* POST /billing/checkout up to its first store call
BeginCheckout(s, token) ==
    LET user == requireAuth(token)
        rq == Request("POST /billing/checkout", token, 0, "", "", "", NoEvent)
    IN  /\ inflight[s].kind = "idle"
        /\ IF user = NOBODY
           THEN Respond(rq, Response(401)) /\ UNCHANGED inflight
           ELSE IF ~stripe \/ ~stripePriceId
           THEN Respond(rq, Response(500)) /\ UNCHANGED inflight
           ELSE /\ Suspend(s, Locals("checkout", "select", user, "", "",
                                     NoProfile, 0, NULL))
                /\ Silent
        /\ UNCHANGED <<premiumBy, config, profiles, blogTable, provider>>

\* what follows ensureProfile in the handler
AfterEnsure(l) == IF l.kind = "post" THEN "count" ELSE "customer"

\* ensureProfile, its select
EnsureSelect(s) ==
    LET l == inflight[s]
        q == single(RowsOf(profiles, l.user))
    IN  /\ l.pc = "select"
        /\ IF q.data # <<>>
           THEN /\ Suspend(s, [l EXCEPT !.profile = q.data[1], !.pc = AfterEnsure(l)])
                /\ Silent
           ELSE IF q.error # "" /\ q.error # "PGRST116"
           THEN Finish(s) /\ Respond(RequestOf(l), Response(500))
           ELSE Suspend(s, [l EXCEPT !.pc = "insert"]) /\ Silent
        /\ UNCHANGED <<premiumBy, config, profiles, blogTable, provider>>

\* ensureProfile, its insert
EnsureInsert(s) ==
    LET l == inflight[s]
        new == ProfileRow(l.user, DEFAULT_PLAN, NULL, NULL)
    IN  /\ l.pc = "insert"
        /\ profiles' = Append(profiles, new)
        /\ Suspend(s, [l EXCEPT !.profile = new, !.pc = AfterEnsure(l)])
        /\ Silent
        /\ UNCHANGED <<premiumBy, config, blogTable, provider>>

\* getBlogCount
PostCount(s) ==
    LET l == inflight[s]
    IN  /\ l.pc = "count"
        /\ Suspend(s, [l EXCEPT !.count = getBlogCount(blogs, l.user), !.pc = "gate"])
        /\ Silent
        /\ UNCHANGED <<premiumBy, config, profiles, blogTable, provider>>

\* the limit test on the count read earlier, then the insert
PostGate(s) ==
    LET l == inflight[s]
        planLimit == getPlanLimit(l.profile.plan)
    IN  /\ l.pc = "gate"
        /\ IF AtLimit(l.count, planLimit)
           THEN /\ Respond(RequestOf(l), Response(403))
                /\ UNCHANGED blogTable
           ELSE /\ nextBlogId < SeedTop + MaxNewPosts
                /\ nextBlogId' = nextBlogId + 1
                /\ blogs' = blogs \cup
                      {BlogRow(nextBlogId + 1, l.user, l.title, l.content)}
                /\ Respond(RequestOf(l), [Response(200) EXCEPT !.blog = nextBlogId + 1])
        /\ Finish(s)
        /\ UNCHANGED <<premiumBy, config, profiles, provider>>

\* the premium test on the row ensureProfile returned, then stripe.customers.create
CheckoutCustomer(s) ==
    LET l == inflight[s]
    IN  /\ l.pc = "customer"
        /\ IF alreadyPremium(l.profile)
           THEN /\ Respond(RequestOf(l), Response(400))
                /\ Finish(s)
                /\ UNCHANGED customers
           ELSE IF l.profile.stripe_customer_id = NULL
           THEN /\ Len(customers) < MaxRaceCustomers
                /\ customers' = Append(customers, l.user)
                /\ Suspend(s, [l EXCEPT !.customerId = CreatedId(Len(customers) + 1),
                                        !.pc = "persist"])
                /\ Silent
           ELSE /\ Suspend(s, [l EXCEPT !.customerId = l.profile.stripe_customer_id,
                                        !.pc = "session"])
                /\ Silent
                /\ UNCHANGED customers
        /\ UNCHANGED <<premiumBy, config, profiles, blogTable, sessions>>

\* the update that persists the new customer id
CheckoutPersist(s) ==
    LET l == inflight[s]
    IN  /\ l.pc = "persist"
        /\ profiles' = customerUpdate(profiles, l.user, l.customerId)
        /\ Suspend(s, [l EXCEPT !.pc = "session"])
        /\ Silent
        /\ UNCHANGED <<premiumBy, config, blogTable, provider>>

\* stripe.checkout.sessions.create and the response; the slot then holds the
\* checkout session (its customer and metadata.supabaseUserId) while it is open
CheckoutSession(s) ==
    LET l == inflight[s]
    IN  /\ l.pc = "session"
        /\ sessions < MaxSessions
        /\ sessions' = sessions + 1
        /\ Respond(RequestOf(l),
                   [Response(200) EXCEPT !.customer = l.customerId,
                                         !.created = (l.profile.stripe_customer_id = NULL)])
        /\ Suspend(s, [l EXCEPT !.pc = "open"])
        /\ UNCHANGED <<premiumBy, config, profiles, blogTable, customers>>

\* the browser comes back from the session, to success_url or cancel_url
CheckoutReturn(s) ==
    /\ inflight[s].pc = "open"
    /\ Finish(s)
    /\ Silent
    /\ UNCHANGED <<premiumBy, config, profiles, blogTable, provider>>

\* ------------------------------------------------------ initial states
\* rows 1..n of the blogs table, all owned by one user
SeedBlogs(user, n) == {BlogRow(i, user, "t0", "c0") : i \in 1..n}

NoRequest == Request("", "", 0, "", "", "", NoEvent)

\* a store that is empty, or holds the rows of one user who has posted before,
\* on either plan (a premium profile carries the references of its subscription)
InitStoreOf(counts) ==
    /\ \E owner \in Users, n \in counts, plan \in {"free", "premium"} :
        /\ blogs = SeedBlogs(owner, n)
        /\ profiles = IF n = 0 THEN <<>>
                      ELSE IF plan = "free"
                      THEN <<ProfileRow(owner, "free", NULL, NULL)>>
                      ELSE <<ProfileRow(owner, "premium", 101, 1)>>
        /\ premiumBy = [u \in Users |->
                          IF n # 0 /\ plan = "premium" /\ u = owner THEN 101
                          ELSE NULL]
    /\ inflight = [s \in Slots |-> Idle]
    /\ nextBlogId = SeedTop
    /\ customers = <<>>
    /\ sessions = 0
    /\ req = NoRequest
    /\ res = Response(0)
    /\ repeat = FALSE

\* the deployment's environment: any combination of the three Stripe settings
AnyConfig ==
    /\ stripe \in BOOLEAN
    /\ stripePriceId \in BOOLEAN
    /\ stripeWebhookSecret \in {NOSECRET, "whsec_live"}

FullConfig ==
    /\ stripe = TRUE
    /\ stripePriceId = TRUE
    /\ stripeWebhookSecret = "whsec_live"

InitStore == InitStoreOf(SeedCounts)

Init == AnyConfig /\ InitStore

\* the billing routes never read the blogs table: a small one is enough
InitBilling == AnyConfig /\ InitStoreOf({0, FreeLimit - 1})

\* the blog routes never read the Stripe settings: one configuration is enough
InitBlogs == FullConfig /\ InitStore

\* the plan policy applied to a tier string
PlanPolicy(tier) ==
    /\ Respond(Request("getPlanLimit", "", 0, tier, "", "", NoEvent),
               [Response(0) EXCEPT !.plan = tier, !.maxBlogs = getPlanLimit(tier)])
    /\ UNCHANGED <<inflight, premiumBy, config, profiles, blogTable, provider>>

NextPolicy == \E tier \in Tiers : PlanPolicy(tier)

NextBlogs ==
    \/ \E token \in Tokens : GetProfile(token)
    \/ \E token \in Tokens : GetBlogs(token)
    \/ \E token \in Tokens, title \in Titles, content \in Contents :
          PostBlog(token, title, content)
    \/ \E token \in Tokens, id \in ReqIds, title \in Titles, content \in Contents :
          PutBlog(token, id, title, content)
    \/ \E token \in Tokens, id \in ReqIds : DeleteBlog(token, id)

NextBilling ==
    \/ \E sig \in Secrets, ev \in Events(KnownCustomers) : Webhook(sig, ev)
    \/ \E token \in Tokens : GetProfile(token)
    \/ \E token \in Tokens : Checkout(token)

\* stores whose users have been on one plan since they were provisioned
InitBlogsRace ==
    /\ FullConfig
    /\ \/ InitStoreOf({0})
       \/ InitStoreOf({FreeLimit - 1}) /\ \A i \in DOMAIN profiles : profiles[i].plan = "free"
       \/ InitStoreOf({PremiumLimit - 1})
             /\ \A i \in DOMAIN profiles : profiles[i].plan = "premium"

InitBillingRace == FullConfig /\ InitStoreOf({0})

\* the deliveries of the billing race: the events the provider sends about the
\* checkout sessions this server created, with one subscription reference: an
\* open session is completed, the subscription a completed session started is
\* deleted
RaceEvents ==
    {ev \in Events({CreatedId(k) : k \in 1..Len(customers)}) :
        \/ /\ ev.type = "checkout.session.completed"
           /\ ev.subscription = 1
           /\ \E s \in Slots : /\ inflight[s].pc = "open"
                                /\ inflight[s].customerId = ev.customer
                                /\ inflight[s].user = ev.user
        \/ /\ ev.type = "customer.subscription.deleted"
           /\ \E u \in Users : premiumBy[u] = ev.customer}

NextBlogsRace ==
    \/ \E s \in Slots, token \in Tokens, title \in Titles, content \in Contents :
          BeginPost(s, token, title, content)
    \/ \E s \in Slots : EnsureSelect(s)
    \/ \E s \in Slots : EnsureInsert(s)
    \/ \E s \in Slots : PostCount(s)
    \/ \E s \in Slots : PostGate(s)

NextBillingRace ==
    \/ \E ev \in RaceEvents : Webhook(stripeWebhookSecret, ev)
    \/ \E s \in Slots, token \in Users : BeginCheckout(s, token)
    \/ \E s \in Slots : EnsureSelect(s)
    \/ \E s \in Slots : EnsureInsert(s)
    \/ \E s \in Slots : CheckoutCustomer(s)
    \/ \E s \in Slots : CheckoutPersist(s)
    \/ \E s \in Slots : CheckoutSession(s)
    \/ \E s \in Slots : CheckoutReturn(s)

Next == NextBlogs \/ NextBilling \/ NextPolicy \/ NextBlogsRace \/ NextBillingRace

Spec == Init /\ [][Next]_vars
SpecBlogs == InitBlogs /\ [][NextBlogs]_vars
SpecBilling == InitBilling /\ [][NextBilling]_vars
SpecPolicy == Init /\ [][NextPolicy]_vars
SpecBlogsRace == InitBlogsRace /\ [][NextBlogsRace]_vars
SpecBillingRace == InitBillingRace /\ [][NextBillingRace]_vars

\* ================================================================ claims
\* the plan a POST /blogs by user u is judged on: the plan of u's row, or the
\* plan of the row provisioned for a user seen for the first time
PlanSeen(P, u) == IF RowsOf(P, u) = <<>> THEN "free" ELSE RowsOf(P, u)[1].plan

OwnedBy(B, u) == {b \in B : b.user_id = u}

ValidPost(r) ==
    r.op = "POST /blogs" /\ r.token \in Users /\ r.title # "" /\ r.content # ""

\* C1: a POST /blogs with non-empty title and content that runs alone is answered
\* 403 and inserts nothing when the user's post count is at or above the ceiling
\* of the profile's plan (free 4, premium 20); otherwise it inserts exactly one
\* post owned by that user, so the user's count grows by exactly 1.
C1_PostGate ==
    [][ValidPost(req') =>
          LET u == req'.token
              ceiling == IF PlanSeen(profiles, u) = "premium" THEN 20 ELSE 4
          IN  IF Cardinality(OwnedBy(blogs, u)) >= ceiling
              THEN res'.status = 403 /\ blogs' = blogs
              ELSE /\ blogs \subseteq blogs'
                   /\ Cardinality(blogs' \ blogs) = 1
                   /\ \A b \in blogs' \ blogs : b.user_id = u
                   /\ Cardinality(OwnedBy(blogs', u)) = Cardinality(OwnedBy(blogs, u)) + 1
                   /\ res'.status = 200]_vars

\* a free user's 5th post was refused after the 4th was accepted
C1_Witness ==
    /\ ValidPost(req)
    /\ res.status = 403
    /\ PlanSeen(profiles, req.token) = "free"
    /\ Cardinality(OwnedBy(blogs, req.token)) = 4
    /\ \E b \in OwnedBy(blogs, req.token) : b.id > SeedTop

\* ----------------------------------------------------------- webhook claims
IsWebhook(r) == r.op = "POST /stripe/webhook"

\* the delivery's signature was made with the endpoint's shared secret
CorrectlySigned(r) == IsWebhook(r) /\ r.sig = stripeWebhookSecret

\* C2: a webhook delivery whose signature does not verify against the shared
\* secret is answered 400 and leaves every profile row unchanged, whatever event
\* type its payload carries.
C2_BadSignatureRejected ==
    [][(IsWebhook(req') /\ ~CorrectlySigned(req')) =>
          (res'.status = 400 /\ profiles' = profiles)]_vars

\* a forged checkout-completed event for a free user was refused on a server
\* that does verify signatures
C2_Witness ==
    /\ IsWebhook(req)
    /\ stripe /\ stripeWebhookSecret # NOSECRET
    /\ req.sig # stripeWebhookSecret
    /\ req.event.type = "checkout.session.completed"
    /\ RowsOf(profiles, req.event.user) # <<>>
    /\ PlanSeen(profiles, req.event.user) = "free"
    /\ res.status = 400

IsCompleted(r) ==
    /\ CorrectlySigned(r)
    /\ r.event.type = "checkout.session.completed"
    /\ r.event.user \in Users

\* what the claim says a completed event leaves behind
AfterCompleted(P, ev) ==
    [i \in DOMAIN P |->
        IF P[i].id = ev.user
        THEN [id |-> ev.user, plan |-> "premium", stripe_customer_id |-> ev.customer,
              stripe_subscription_id |-> ev.subscription]
        ELSE P[i]]

\* C3 as stated: a correctly signed checkout-completed event tagged with identity
\* U, customer C and subscription S, delivered when a profile for U exists, leaves
\* that profile with plan premium and the references C and S, and changes no
\* other profile.
C3_AsStated ==
    [][(IsCompleted(req') /\ RowsOf(profiles, req'.event.user) # <<>>) =>
          profiles' = AfterCompleted(profiles, req'.event)]_vars

\* C3 amended: the same, on a server whose Stripe client is configured
\* (STRIPE_SECRET_KEY set).
C3_CompletedSetsPremium ==
    [][(stripe /\ IsCompleted(req') /\ RowsOf(profiles, req'.event.user) # <<>>) =>
          (profiles' = AfterCompleted(profiles, req'.event) /\ res'.status = 200)]_vars

\* a completed event moved a profile that was premium under other references
\* to the event's references (second delivery of a different event)
C3_Witness ==
    /\ stripe
    /\ IsCompleted(req)
    /\ res.status = 200
    /\ Len(profiles) = 2
    /\ \E i \in DOMAIN profiles :
          /\ profiles[i].id = req.event.user
          /\ profiles[i].plan = "premium"
          /\ profiles[i].stripe_customer_id = req.event.customer
          /\ profiles[i].stripe_subscription_id = req.event.subscription
          /\ req.event.subscription = 2
          /\ req.event.customer \notin ExternalCustomers

IsDeleted(r) ==
    CorrectlySigned(r) /\ r.event.type = "customer.subscription.deleted"

\* what the claim says a deleted event leaves behind
AfterDeleted(P, ev) ==
    [i \in DOMAIN P |->
        IF P[i].stripe_customer_id = ev.customer
        THEN [id |-> P[i].id, plan |-> "free",
              stripe_customer_id |-> P[i].stripe_customer_id,
              stripe_subscription_id |-> NULL]
        ELSE P[i]]

\* C4 as stated: a correctly signed subscription-deleted event for customer C sets
\* plan free and a null subscription reference on every profile whose customer
\* reference is C, keeps their customer reference, and leaves every other
\* profile unchanged.
C4_AsStated ==
    [][IsDeleted(req') => profiles' = AfterDeleted(profiles, req'.event)]_vars

\* C4 amended: the same, on a server whose Stripe client is configured
\* (STRIPE_SECRET_KEY set).
C4_DeletedSetsFree ==
    [][(stripe /\ IsDeleted(req')) =>
          (profiles' = AfterDeleted(profiles, req'.event) /\ res'.status = 200)]_vars

\* a deleted event returned a premium profile to free and kept its customer
\* reference, next to a profile of another customer that stayed premium
C4_Witness ==
    /\ stripe
    /\ IsDeleted(req)
    /\ res.status = 200
    /\ \E i, j \in DOMAIN profiles :
          /\ profiles[i].stripe_customer_id = req.event.customer
          /\ profiles[i].plan = "free"
          /\ profiles[i].stripe_subscription_id = NULL
          /\ profiles[j].stripe_customer_id # req.event.customer
          /\ profiles[j].plan = "premium"
          /\ profiles[j].stripe_subscription_id # NULL

\* C8: delivering a correctly signed event a second time, right after the first
\* delivery, leaves the profile store as the first delivery left it.
C8_RedeliveryIdempotent ==
    [][(CorrectlySigned(req) /\ req' = req) => profiles' = profiles]_vars

\* a completed event was delivered twice in a row and its profile is premium
C8_Witness ==
    /\ stripe
    /\ IsCompleted(req)
    /\ repeat
    /\ res.status = 200
    /\ \E i \in DOMAIN profiles :
          /\ profiles[i].id = req.event.user
          /\ profiles[i].plan = "premium"
          /\ profiles[i].stripe_subscription_id = req.event.subscription

\* ---------------------------------------------------------- checkout claims
IsCheckout(r) == r.op = "POST /billing/checkout" /\ r.token \in Users

CustomerSeen(P, u) ==
    IF RowsOf(P, u) = <<>> THEN NULL ELSE RowsOf(P, u)[1].stripe_customer_id

\* the first of two calls: the identity is on the free plan and has no customer
\* reference; one customer is created and its id is on the profile afterwards
FirstCheckout ==
    (/\ IsCheckout(req')
     /\ PlanSeen(profiles, req'.token) = "free"
     /\ CustomerSeen(profiles, req'.token) = NULL)
    => /\ customers' = Append(customers, req'.token)
       /\ CustomerSeen(profiles', req'.token) = CreatedId(Len(customers'))
       /\ res'.status = 200
       /\ res'.created
       /\ res'.customer = CreatedId(Len(customers'))
       /\ sessions' = sessions + 1

\* the second call, right after a first one that created a customer, with the
\* profile still on the free plan: no customer is created and the session is for
\* the persisted id
SecondCheckout ==
    (/\ IsCheckout(req')
     /\ req' = req
     /\ res.status = 200
     /\ res.created
     /\ PlanSeen(profiles, req'.token) = "free")
    => /\ customers' = customers
       /\ profiles' = profiles
       /\ res'.status = 200
       /\ ~res'.created
       /\ res'.customer = res.customer
       /\ res'.customer = CustomerSeen(profiles, req'.token)
       /\ sessions' = sessions + 1

\* C5 as stated: two POST /billing/checkout calls in a row for an identity with
\* no customer reference that stays on the free plan create exactly one customer:
\* the first call creates it and persists its id, the second reuses that id.
C5_AsStated == [][FirstCheckout /\ SecondCheckout]_vars

\* C5 amended: the same, on a server where billing is configured
\* (STRIPE_SECRET_KEY and STRIPE_PRICE_ID set).
C5_OneCustomerForTwoCalls ==
    [][(stripe /\ stripePriceId) => (FirstCheckout /\ SecondCheckout)]_vars

\* two calls in a row by an identity first seen by the first call: one customer,
\* two sessions, the second session for the persisted id
C5_Witness ==
    /\ IsCheckout(req)
    /\ repeat
    /\ res.status = 200
    /\ ~res.created
    /\ sessions = 2
    /\ customers = <<req.token>>
    /\ blogs = {}
    /\ res.customer = CreatedId(1)
    /\ CustomerSeen(profiles, req.token) = CreatedId(1)
    /\ PlanSeen(profiles, req.token) = "free"

PremiumCheckout(r) ==
    /\ IsCheckout(r)
    /\ RowsOf(profiles, r.token) # <<>>
    /\ PlanSeen(profiles, r.token) = "premium"

\* C9 as stated: POST /billing/checkout for an identity whose profile is on the
\* premium plan is answered 400, creates no customer and no checkout session and
\* leaves the profile unchanged.
C9_AsStated ==
    [][PremiumCheckout(req') =>
          (res'.status = 400 /\ UNCHANGED <<customers, sessions, profiles>>)]_vars

\* C9 amended: the same, on a server where billing is configured
\* (STRIPE_SECRET_KEY and STRIPE_PRICE_ID set).
C9_PremiumRefused ==
    [][(stripe /\ stripePriceId /\ PremiumCheckout(req')) =>
          (res'.status = 400 /\ UNCHANGED <<customers, sessions, profiles>>)]_vars

\* a premium identity asked for a checkout on a configured server and was
\* refused after an earlier checkout of another identity had gone through
C9_Witness ==
    /\ stripe /\ stripePriceId
    /\ PremiumCheckout(req)
    /\ res.status = 400
    /\ sessions = 1

\* ------------------------------------------------------- provisioning claim
IsProvision(r) == r.op = "GET /profile" /\ r.token \in Users

FreshRow(u) ==
    [id |-> u, plan |-> "free", stripe_customer_id |-> NULL,
     stripe_subscription_id |-> NULL]

\* a second ensureProfile right after a first changes nothing and returns the
\* row the first returned
EnsureTwice(P, u) ==
    LET first == ensureProfile(P, u)
        second == ensureProfile(first.profiles, u)
    IN  /\ ~first.threw /\ ~second.threw
        /\ second.profiles = first.profiles
        /\ second.profile = first.profile
        /\ Len(RowsOf(first.profiles, u)) = 1

\* C6: under sequential calls the first ensureProfile for an identity without a
\* row inserts exactly one row with plan free and null billing references, a
\* later call inserts nothing and returns that row, and the profiles table never
\* holds more than one row of an identity.
C6_ProvisionOnce ==
    [][/\ IsProvision(req') =>
            /\ IF RowsOf(profiles, req'.token) = <<>>
               THEN /\ profiles' = Append(profiles, FreshRow(req'.token))
                    /\ res'.plan = "free"
               ELSE /\ profiles' = profiles
                    /\ res'.plan = RowsOf(profiles, req'.token)[1].plan
            /\ EnsureTwice(profiles, req'.token)
       /\ \A u \in Users : Len(RowsOf(profiles', u)) <= 1]_vars

\* GET /profile twice in a row by an identity the store had never seen
C6_Witness ==
    /\ IsProvision(req)
    /\ repeat
    /\ res.status = 200
    /\ blogs = {}
    /\ profiles = <<FreshRow(req.token)>>

\* --------------------------------------------------------- ownership claim
IsMutation(r) ==
    /\ r.token \in Users
    /\ \/ r.op = "DELETE /blogs/:id"
       \/ r.op = "PUT /blogs/:id" /\ r.title # "" /\ r.content # ""

\* C7: a PUT or DELETE /blogs/:id by an authenticated user for a post id that is
\* absent or owned by another user is answered 404 and leaves every post row
\* unchanged.
C7_AsStated ==
    [][(IsMutation(req') /\ Matching(blogs, req'.id, req'.token) = {}) =>
          (res'.status = 404 /\ blogs' = blogs)]_vars

\* what the handlers do in that case: the rows stay, the answer is 500
C7_RowsKeptAnswer500 ==
    [][(IsMutation(req') /\ Matching(blogs, req'.id, req'.token) = {}) =>
          (res'.status = 500 /\ blogs' = blogs)]_vars

\* ------------------------------------------------------------ policy claim
\* C10: the plan ceiling is 4 for free, 20 for premium and 4 for every other
\* tier string.
C10_AsStated ==
    req.op = "getPlanLimit" =>
        res.maxBlogs = [kind |-> "number", n |-> IF res.plan = "premium" THEN 20 ELSE 4]


\* ------------------------------------------------------ interleaved handlers
\* the post-count limit of the plan of u's profile
LimitOf(P, u) == IF PlanSeen(P, u) = "premium" THEN PremiumLimit ELSE FreeLimit

\* C11: with POST /blogs handlers of one user interleaving between their count
\* read and their insert, a user whose profile has been free throughout never
\* owns more than 4 posts and a user on premium never owns more than 20 (under
\* SpecBlogsRace no action changes a plan: a profile is on the plan it started
\* on or, provisioned here, on free)
C11_AsStated ==
    \A u \in Users : Cardinality(OwnedBy(blogs, u)) <= LimitOf(profiles, u)

\* the subscription-deleted event for customer reference c
DeletedFor(c) ==
    [type |-> "customer.subscription.deleted", user |-> NOBODY, customer |-> c,
     subscription |-> NULL]

\* C12: with a POST /billing/checkout handler interleaving with webhook
\* deliveries, a premium profile carries the customer reference of the
\* checkout-completed event that last made it premium, so the
\* subscription-deleted event for that reference returns it to free
C12_AsStated ==
    \A i \in DOMAIN profiles :
        profiles[i].plan = "premium" =>
            /\ profiles[i].stripe_customer_id = premiumBy[profiles[i].id]
            /\ deletedUpdate(profiles, DeletedFor(premiumBy[profiles[i].id]))[i].plan
                   = "free"

====
